---- MODULE Spec2Model ----
(***************************************************************************)
(* Model of the Upwork job analyzer                                        *)
(* (Job-Applications/automation/scripts/job-analyzer.py).                  *)
(*                                                                         *)
(* Text is kept as TLA+ strings and scanned character by character, so     *)
(* that str.lower, the `in` substring test, str.replace, re.findall and    *)
(* int() are computed the way the interpreter computes them.               *)
(*                                                                         *)
(* Python values that reach the analyzer untyped (the fields of a raw      *)
(* record) are tagged: PyStr(s), PyInt(n), PyNone, and PyAbsent for a missing key. *)
(* A call that can raise returns [exc, val]: exc = "" on a normal return,  *)
(* otherwise the name of the exception class.                              *)
(***************************************************************************)
EXTENDS Integers, Sequences, FiniteSets, TLC

VARIABLES
    job_posts,       \* the list the caller hands to analyze_batch
    pc,              \* where the caller / analyze_batch stands
    idx,             \* position of the for loop of analyze_batch (1-based)
    processed_jobs,  \* the local list analyze_batch appends to
    log,             \* what the except clause printed: <<record id, exception>>
    analysis,        \* the report analyze_batch returned (NoReport before)
    analyzer,        \* the UpworkJobAnalyzer object: its two table attributes
    call             \* the last direct call of a method: name, arguments, result

vars == <<job_posts, pc, idx, processed_jobs, log, analysis, analyzer, call>>

----------------------------------------------------------------------------
(* Python values *)

PyStr(s) == [t |-> "str", s |-> s, n |-> 0]
PyInt(n) == [t |-> "int", s |-> "", n |-> n]
PyNone == [t |-> "none", s |-> "", n |-> 0]
PyAbsent == [t |-> "absent", s |-> "", n |-> 0]

IsStr(v) == v.t = "str"

\* bool(v) for the values above: "", 0 and None are falsy.
Truthy(v) ==
    CASE v.t = "str" -> v.s # ""
      [] v.t = "int" -> v.n # 0
      [] OTHER -> FALSE

Ok(v) == [exc |-> "", val |-> v]
Raise(e) == [exc |-> e, val |-> PyNone]

----------------------------------------------------------------------------
(* str methods *)

UPPER == "ABCDEFGHIJKLMNOPQRSTUVWXYZ"
LOWER == "abcdefghijklmnopqrstuvwxyz"
DIGITS == "0123456789"

CharAt(s, i) == SubSeq(s, i, i)

\* 1-based position of the character c in alphabet, 0 when it is not there.
IndexIn(c, alphabet) ==
    IF \E i \in 1..Len(alphabet) : CharAt(alphabet, i) = c
    THEN CHOOSE i \in 1..Len(alphabet) : CharAt(alphabet, i) = c
    ELSE 0

lower_char(c) ==
    IF IndexIn(c, UPPER) = 0 THEN c ELSE CharAt(LOWER, IndexIn(c, UPPER))

RECURSIVE lower_from(_, _)
lower_from(s, i) ==
    IF i > Len(s) THEN "" ELSE lower_char(CharAt(s, i)) \o lower_from(s, i + 1)

\* str.lower()
\* The text as it is, not lower-cased.
lower_unchanged(s) == s

lower(s) == lower_from(s, 1)

\* The keyword looked for at the start of the words of the text only.
contains_at_word_start(keyword, text) ==
    \E i \in 1..(Len(text) - Len(keyword) + 1) :
        /\ SubSeq(text, i, i + Len(keyword) - 1) = keyword
        /\ i = 1 \/ CharAt(text, i - 1) = " "

\* `keyword in text`
contains(keyword, text) ==
    \E i \in 1..(Len(text) - Len(keyword) + 1) :
        SubSeq(text, i, i + Len(keyword) - 1) = keyword

RECURSIVE remove_char_from(_, _, _)
remove_char_from(s, c, i) ==
    IF i > Len(s) THEN ""
    ELSE (IF CharAt(s, i) = c THEN "" ELSE CharAt(s, i)) \o remove_char_from(s, c, i + 1)

\* s.replace(c, '') for a one-character c
remove_char(s, c) == remove_char_from(s, c, 1)

IsDigit(c) == IndexIn(c, DIGITS) # 0

\* re.findall(r'\d+', s): the scanner takes digits greedily, so every match
\* is a maximal run; matches come left to right.
RECURSIVE findall_digits_from(_, _, _, _)
findall_digits_from(s, i, run, found) ==
    IF i > Len(s)
    THEN (IF run = "" THEN found ELSE Append(found, run))
    ELSE IF IsDigit(CharAt(s, i))
         THEN findall_digits_from(s, i + 1, run \o CharAt(s, i), found)
         ELSE findall_digits_from(s, i + 1, "",
                                  IF run = "" THEN found ELSE Append(found, run))

findall_digits(s) == findall_digits_from(s, 1, "", <<>>)

\* int(num) for a string of decimal digits
RECURSIVE int_of_digits_from(_, _, _)
int_of_digits_from(s, i, acc) ==
    IF i > Len(s) THEN acc
    ELSE int_of_digits_from(s, i + 1, acc * 10 + (IndexIn(CharAt(s, i), DIGITS) - 1))

int_of_digits(s) == int_of_digits_from(s, 1, 0)

\* max(...) over a non-empty list of integers
RECURSIVE max_of_from(_, _, _)
max_of_from(xs, i, best) ==
    IF i > Len(xs) THEN best
    ELSE max_of_from(xs, i + 1, IF xs[i] > best THEN xs[i] ELSE best)

max_of(xs) == max_of_from(xs, 2, xs[1])

Min2(a, b) == IF a < b THEN a ELSE b
Max2(a, b) == IF a > b THEN a ELSE b

----------------------------------------------------------------------------
(* UpworkJobAnalyzer.__init__ : the two tables, in declaration order *)

Sub(name, keywords) == [name |-> name, keywords |-> keywords]
Cat(name, subs) == [name |-> name, subs |-> subs]

skill_keywords == <<
    Cat("web_development", <<
        Sub("frontend", <<"react", "vue", "angular", "javascript", "typescript", "html", "css">>),
        Sub("backend", <<"node", "python", "php", "laravel", "django", "express">>),
        Sub("fullstack", <<"full-stack", "fullstack", "mern", "mean", "lamp">>),
        Sub("wordpress", <<"wordpress", "wp", "elementor", "gutenberg", "woocommerce">>) >>),
    Cat("mobile_apps", <<
        Sub("ios", <<"ios", "swift", "objective-c", "xcode">>),
        Sub("android", <<"android", "kotlin", "java", "android studio">>),
        Sub("react_native", <<"react native", "expo">>),
        Sub("flutter", <<"flutter", "dart">>) >>),
    Cat("ai_ml", <<
        Sub("chatbots", <<"chatbot", "bot", "conversational ai", "dialogue">>),
        Sub("automation", <<"automation", "scraping", "workflow", "zapier">>),
        Sub("data_analysis", <<"data analysis", "pandas", "numpy", "visualization">>),
        Sub("machine_learning", <<"machine learning", "ai", "tensorflow", "pytorch">>) >>),
    Cat("design", <<
        Sub("ui_ux", <<"ui", "ux", "user experience", "user interface">>),
        Sub("graphic_design", <<"logo", "branding", "graphic design", "photoshop">>),
        Sub("branding", <<"brand identity", "brand design", "corporate identity">>),
        Sub("figma", <<"figma", "sketch", "adobe xd">>) >>) >>

\* An upper limit of float('inf') is the pair inf = TRUE.
Tier(name, lo, hi, inf) == [name |-> name, lo |-> lo, hi |-> hi, inf |-> inf]

budget_ranges == <<
    Tier("micro", 0, 50, FALSE),
    Tier("small", 50, 500, FALSE),
    Tier("medium", 500, 5000, FALSE),
    Tier("large", 5000, 0, TRUE) >>

----------------------------------------------------------------------------
(* Lists and dictionaries *)

RECURSIVE concat_all(_)
concat_all(lists) ==
    IF lists = <<>> THEN <<>> ELSE Head(lists) \o concat_all(Tail(lists))

RECURSIVE sum_of(_)
sum_of(xs) == IF xs = <<>> THEN 0 ELSE Head(xs) + sum_of(Tail(xs))

SeqToSet(xs) == {xs[i] : i \in DOMAIN xs}

\* list(set(xs)): the elements once each, in the order the hash table yields
\* them. String hashes are salted per process, so every order can come out.
list_of_set(S) ==
    {l \in [1..Cardinality(S) -> S] : \A i, j \in DOMAIN l : i # j => l[i] # l[j]}

\* The last key holding the largest value instead of the first.
RECURSIVE max_key_from_last(_, _, _)
max_key_from_last(scores, i, best) ==
    IF i > Len(scores) THEN best
    ELSE max_key_from_last(scores, i + 1, IF scores[i] >= scores[best] THEN i ELSE best)

\* max(d, key=d.get) over a dict whose keys, in insertion order, are 1..Len(scores):
\* the first key holding the largest value.
RECURSIVE max_key_from(_, _, _)
max_key_from(scores, i, best) ==
    IF i > Len(scores) THEN best
    ELSE max_key_from(scores, i + 1, IF scores[i] > scores[best] THEN i ELSE best)

max_key(scores) == max_key_from(scores, 2, 1)

----------------------------------------------------------------------------
(* UpworkJobAnalyzer.extract_skills *)

keywords_of(category) ==
    concat_all([i \in DOMAIN category.subs |-> category.subs[i].keywords])

all_keywords ==
    concat_all([i \in DOMAIN skill_keywords |-> keywords_of(skill_keywords[i])])

\* found_skills with the keywords looked up in the text as written, not lower-cased.
found_skills_case_sensitive(description, title) ==
    LET text == description \o " " \o title
    IN  SelectSeq(all_keywords, LAMBDA keyword : contains(keyword, text))

\* found_skills after the three nested loops, in taxonomy order
found_skills(description, title) ==
    LET text == lower(description \o " " \o title)
    IN  SelectSeq(all_keywords, LAMBDA keyword : contains(keyword, text))

\* The lists extract_skills can return.
extract_skills(description, title) ==
    list_of_set(SeqToSet(found_skills(description, title)))

----------------------------------------------------------------------------
(* UpworkJobAnalyzer.categorize_job *)

\* One `+= 1` for every keyword of the list that occurs in the text.
hits(keywords, text) ==
    Len(SelectSeq(keywords, LAMBDA keyword : contains(keyword, text)))

category_scores(text) ==
    [c \in DOMAIN skill_keywords |->
        sum_of([s \in DOMAIN skill_keywords[c].subs |->
                    hits(skill_keywords[c].subs[s].keywords, text)])]

subcategory_scores(main_category, text) ==
    [s \in DOMAIN skill_keywords[main_category].subs |->
        hits(skill_keywords[main_category].subs[s].keywords, text)]

\* categorize_job with a catch-all answer when no keyword occurs in the text.
categorize_job_or_other(skills, title, description) ==
    LET text == lower(title \o " " \o description)
        main_category == max_key(category_scores(text))
        subcategory == max_key(subcategory_scores(main_category, text))
    IN  IF sum_of(category_scores(text)) = 0 THEN <<"other", "general">>
        ELSE <<skill_keywords[main_category].name,
               skill_keywords[main_category].subs[subcategory].name>>

\* categorize_job counting the keywords in the first of the skills passed,
\* when there is one, instead of in the text.
categorize_job_by_skills(skills, title, description) ==
    LET text == IF skills = <<>> THEN lower(title \o " " \o description) ELSE skills[1]
        main_category == max_key(category_scores(text))
        subcategory == max_key(subcategory_scores(main_category, text))
    IN  <<skill_keywords[main_category].name,
          skill_keywords[main_category].subs[subcategory].name>>

categorize_job(skills, title, description) ==
    LET text == lower(title \o " " \o description)
        main_category == max_key(category_scores(text))
        subcategory == max_key(subcategory_scores(main_category, text))
    IN  <<skill_keywords[main_category].name,
          skill_keywords[main_category].subs[subcategory].name>>

----------------------------------------------------------------------------
(* UpworkJobAnalyzer.extract_budget *)

\* numbers = re.findall(r'\d+', budget_text.replace(',', ''))
budget_numbers(budget_text) == findall_digits(remove_char(budget_text, ","))

\* The first number found instead of the highest: int(numbers[0]).
first_budget_of(numbers) == int_of_digits(numbers[1])

\* max_budget = max(int(num) for num in numbers)
max_budget_of(numbers) ==
    max_of([i \in DOMAIN numbers |-> int_of_digits(numbers[i])])

\* The interval test with the upper limit included: min_val <= max_budget <= max_val.
in_range_closed(range, max_budget) ==
    range.lo <= max_budget /\ (range.inf \/ max_budget <= range.hi)

in_range(range, max_budget) ==
    range.lo <= max_budget /\ (range.inf \/ max_budget < range.hi)

\* the for loop over budget_ranges, and the return after it
RECURSIVE range_name_from(_, _)
range_name_from(max_budget, i) ==
    IF i > Len(budget_ranges) THEN "large"
    ELSE IF in_range(budget_ranges[i], max_budget) THEN budget_ranges[i].name
         ELSE range_name_from(max_budget, i + 1)

range_name(max_budget) == range_name_from(max_budget, 1)

\* extract_budget without `if not numbers`: max() of an empty sequence raises.
extract_budget_unguarded(budget_text) ==
    IF ~Truthy(budget_text) THEN Ok("unknown")
    ELSE IF ~IsStr(budget_text) THEN Raise("AttributeError")
    ELSE LET numbers == budget_numbers(budget_text.s)
         IN  IF numbers = <<>> THEN Raise("ValueError")
             ELSE Ok(range_name(max_budget_of(numbers)))

\* extract_budget handing an empty budget text back instead of "unknown".
extract_budget_echo(budget_text) ==
    IF ~Truthy(budget_text) THEN Ok(budget_text.s)
    ELSE IF ~IsStr(budget_text) THEN Raise("AttributeError")
    ELSE LET numbers == budget_numbers(budget_text.s)
         IN  IF numbers = <<>> THEN Ok("unknown")
             ELSE Ok(range_name(max_budget_of(numbers)))

extract_budget(budget_text) ==
    IF ~Truthy(budget_text) THEN Ok("unknown")
    ELSE IF ~IsStr(budget_text) THEN Raise("AttributeError")
    ELSE LET numbers == budget_numbers(budget_text.s)
         IN  IF numbers = <<>> THEN Ok("unknown")
             ELSE Ok(range_name(max_budget_of(numbers)))

----------------------------------------------------------------------------
(* JobPost and UpworkJobAnalyzer.calculate_opportunity_score *)

JobPost(job_id, title, budget, timeline, skills_required, client_location, client_history, proposals, description, opportunity_score, category, subcategory, notes) ==
    [job_id |-> job_id, title |-> title, budget |-> budget, timeline |-> timeline,
     skills_required |-> skills_required, client_location |-> client_location,
     client_history |-> client_history, proposals |-> proposals,
     description |-> description, opportunity_score |-> opportunity_score,
     category |-> category, subcategory |-> subcategory, notes |-> notes]

\* budget_bonus.get(job.budget, 0)
budget_bonus(budget) ==
    CASE budget = "micro" -> 0
      [] budget = "small" -> 2
      [] budget = "medium" -> 4
      [] budget = "large" -> 6
      [] OTHER -> 0

\* The competition factor with a penalty of 5 above 50 proposals.
competition_factor_minus_five(proposals) ==
    IF proposals < 10 THEN 3
    ELSE IF proposals < 25 THEN 1
    ELSE IF proposals > 50 THEN 0 - 5
    ELSE 0

\* The competition factor with the penalty starting at 50 proposals: `>= 50`.
competition_factor_from_50(proposals) ==
    IF proposals < 10 THEN 3
    ELSE IF proposals < 25 THEN 1
    ELSE IF proposals >= 50 THEN 0 - 2
    ELSE 0

competition_factor(proposals) ==
    IF proposals < 10 THEN 3
    ELSE IF proposals < 25 THEN 1
    ELSE IF proposals > 50 THEN 0 - 2
    ELSE 0

skill_factor(skills_required) ==
    IF Len(skills_required) > 0 THEN Min2(Len(skills_required), 3) ELSE 0

\* The clamp without its upper limit: max(score, 1).
clamp_score_no_upper_limit(score) == Max2(score, 1)

clamp_score(score) == Min2(Max2(score, 1), 10)

\* score as it stands before the return statement clamps it
unclamped_score(job) ==
    LET score == 5 + budget_bonus(job.budget) + competition_factor(job.proposals)
                   + skill_factor(job.skills_required)
    IN  IF contains("established", lower(job.client_history.s))
        THEN score + 1
        ELSE score

calculate_opportunity_score(job) ==
    IF ~IsStr(job.client_history) THEN Raise("AttributeError")
    ELSE Ok(clamp_score(unclamped_score(job)))

----------------------------------------------------------------------------
(* Raw records and UpworkJobAnalyzer.process_job_post *)

Fields == {"id", "title", "description", "budget", "timeline", "client_location",
           "client_history", "proposals", "notes"}

\* A raw record: a dict (mapping = TRUE) with some of the fields, or a value
\* that is no dict at all (mapping = FALSE), such as a null entry of a list.
Record(fields) ==
    [mapping |-> TRUE,
     fields |-> [k \in Fields |-> IF k \in DOMAIN fields THEN fields[k] ELSE PyAbsent]]

NotADict == [mapping |-> FALSE, fields |-> [k \in Fields |-> PyAbsent]]

\* job_data.get(key) handing back what it finds, a missing key included.
get_without_default(job_data, key, default) == job_data.fields[key]

\* job_data.get(key, default)
get(job_data, key, default) ==
    IF job_data.fields[key].t = "absent" THEN default ELSE job_data.fields[key]

RECURSIVE lstrip(_)
lstrip(s) == IF s # "" /\ CharAt(s, 1) = " " THEN lstrip(SubSeq(s, 2, Len(s))) ELSE s

RECURSIVE rstrip(_)
rstrip(s) ==
    IF s # "" /\ CharAt(s, Len(s)) = " " THEN rstrip(SubSeq(s, 1, Len(s) - 1)) ELSE s

\* int(v): an int as it is; a string of an optional sign and decimal digits,
\* blanks around it ignored; anything else raises.
py_int(v) ==
    CASE v.t = "int" -> Ok(v.n)
      [] v.t = "str" ->
            LET body == rstrip(lstrip(v.s))
                signed == body # "" /\ CharAt(body, 1) \in {"+", "-"}
                digits == IF signed THEN SubSeq(body, 2, Len(body)) ELSE body
                value == int_of_digits(digits)
            IN  IF digits # "" /\ \A i \in 1..Len(digits) : IsDigit(CharAt(digits, i))
                THEN Ok(IF signed /\ CharAt(body, 1) = "-" THEN 0 - value ELSE value)
                ELSE Raise("ValueError")
      [] OTHER -> Raise("TypeError")

\* The outcomes of process_job_post(job_data): one per order in which
\* extract_skills can list the skills; a single one when it raises.
process_job_post(job_data) ==
    IF ~job_data.mapping THEN {Raise("AttributeError")}
    ELSE
    LET description == get(job_data, "description", PyStr(""))
        title == get(job_data, "title", PyStr(""))
    IN
    IF ~IsStr(description) \/ ~IsStr(title) THEN {Raise("TypeError")}
    ELSE
    LET categories(skills) == categorize_job(skills, title.s, description.s)
        budget == extract_budget(get(job_data, "budget", PyStr("")))
        proposals == py_int(get(job_data, "proposals", PyInt(0)))
        job(skills) ==
            JobPost(get(job_data, "id", PyStr("")),
                    title,
                    budget.val,
                    get(job_data, "timeline", PyStr("")),
                    skills,
                    get(job_data, "client_location", PyStr("")),
                    get(job_data, "client_history", PyStr("")),
                    proposals.val,
                    description,
                    0,
                    categories(skills)[1],
                    categories(skills)[2],
                    get(job_data, "notes", PyStr("")))
    IN
    IF budget.exc # "" THEN {Raise(budget.exc)}
    ELSE IF proposals.exc # "" THEN {Raise(proposals.exc)}
    ELSE {LET new_job == job(skills)
              score == calculate_opportunity_score(new_job)
          IN  IF score.exc # "" THEN Raise(score.exc)
              ELSE Ok([new_job EXCEPT !.opportunity_score = score.val])
          : skills \in extract_skills(description.s, title.s)}

----------------------------------------------------------------------------
(* The aggregate views of analyze_batch *)

category_key(job) == job.category \o "." \o job.subcategory

\* d[key] = 1 for each key of the list: every key present is counted once.
count_keys_once(keys) == [k \in SeqToSet(keys) |-> 1]

\* d[key] = d.get(key, 0) + 1 for each key of the list in turn: the dict, as
\* a function from its keys to their counts.
count_keys(keys) ==
    [k \in SeqToSet(keys) |-> Cardinality({i \in DOMAIN keys : keys[i] = k})]

_analyze_categories(jobs) == count_keys([i \in DOMAIN jobs |-> category_key(jobs[i])])

_analyze_budgets(jobs) == count_keys([i \in DOMAIN jobs |-> jobs[i].budget])

competition_level(proposals) ==
    IF proposals < 10 THEN "low"
    ELSE IF proposals < 25 THEN "medium"
    ELSE "high"

(* Python floats: IEEE 754 binary64. A float other than zero is its sign, the
   bits of its significand, first bit 1, and the exponent of that first bit:
   sign * (bits[1] * 2^exp + bits[2] * 2^(exp-1) + ...). *)

\* The bits of the significand of a binary64 float.
Precision == 53

PyFloat(sign, bits, exp) == [float |-> TRUE, sign |-> sign, bits |-> bits, exp |-> exp]
PyFloatZero == [float |-> TRUE, sign |-> 0, bits |-> <<>>, exp |-> 0]

\* The int 0 where a float is expected
PyIntZero == [float |-> FALSE, sign |-> 0, bits |-> <<>>, exp |-> 0]

\* The binary digits of n > 0, highest first.
RECURSIVE bits_of(_)
bits_of(n) == IF n = 0 THEN <<>> ELSE Append(bits_of(n \div 2), n % 2)

\* bits + 1: <<>> when the carry runs out of the first bit.
RECURSIVE increment_from(_, _)
increment_from(bits, j) ==
    IF j = 0 THEN <<>>
    ELSE IF bits[j] = 0 THEN [bits EXCEPT ![j] = 1]
    ELSE increment_from([bits EXCEPT ![j] = 0], j - 1)

\* Rounding to nearest, ties to even: digits are the digits from the first 1
\* on, of which Precision are kept; more says that digits other than 0 follow.
round_to_float(sign, digits, exp, more) ==
    LET padded == IF Len(digits) > Precision THEN digits
                  ELSE digits \o [j \in 1..(Precision + 1 - Len(digits)) |-> 0]
        kept == SubSeq(padded, 1, Precision)
        half == padded[Precision + 1]
        rest == more \/ \E j \in (Precision + 2)..Len(padded) : padded[j] = 1
        up == half = 1 /\ (rest \/ kept[Precision] = 1)
        next == increment_from(kept, Precision)
    IN  IF ~up THEN PyFloat(sign, kept, exp)
        ELSE IF next # <<>> THEN PyFloat(sign, next, exp)
        ELSE PyFloat(sign, <<1>> \o [j \in 1..(Precision - 1) |-> 0], exp + 1)

\* Binary long division of a by b, a and b > 0: Precision + 1 digits of the
\* quotient from its first 1 on, the remainder, and the place of the last digit.
RECURSIVE divide_from(_, _, _, _, _)
divide_from(dividend, b, i, rem, digits) ==
    IF Len(digits) = Precision + 1
    THEN [digits |-> digits, rem |-> rem, last |-> i - 1]
    ELSE LET r == 2 * rem + (IF i <= Len(dividend) THEN dividend[i] ELSE 0)
             q == IF r >= b THEN 1 ELSE 0
         IN  divide_from(dividend, b, i + 1, r - q * b,
                         IF digits = <<>> /\ q = 0 THEN digits ELSE Append(digits, q))

Abs(n) == IF n < 0 THEN 0 - n ELSE n

\* a / b for ints a and b > 0: the float nearest to the quotient.
true_divide(a, b) ==
    IF a = 0 THEN PyFloatZero
    ELSE LET dividend == bits_of(Abs(a))
             quotient == divide_from(dividend, b, 1, 0, <<>>)
             first == quotient.last - Precision
         IN  round_to_float(IF a < 0 THEN 0 - 1 ELSE 1, quotient.digits,
                            Len(dividend) - first, quotient.rem # 0)

\* a // b as a float that is a whole number.
floor_divide(a, b) ==
    IF a \div b = 0 THEN PyFloatZero
    ELSE round_to_float(IF a < 0 THEN 0 - 1 ELSE 1, bits_of(Abs(a \div b)),
                        Len(bits_of(Abs(a \div b))) - 1, FALSE)

\* _analyze_competition with the average rounded down to a whole number.
_analyze_competition_floor(jobs) ==
    [distribution |->
        [level \in {"low", "medium", "high"} |->
            Cardinality({i \in DOMAIN jobs : competition_level(jobs[i].proposals) = level})],
     average_proposals |->
        IF jobs # <<>>
        THEN floor_divide(sum_of([i \in DOMAIN jobs |-> jobs[i].proposals]), Len(jobs))
        ELSE PyIntZero]

_analyze_competition(jobs) ==
    [distribution |->
        [level \in {"low", "medium", "high"} |->
            Cardinality({i \in DOMAIN jobs : competition_level(jobs[i].proposals) = level})],
     average_proposals |->
        IF jobs # <<>>
        THEN true_divide(sum_of([i \in DOMAIN jobs |-> jobs[i].proposals]), Len(jobs))
        ELSE PyIntZero]

\* sorted(items, key=..., reverse=True) over items [key, item]: descending by
\* key, items of equal key in their original order. Each item in turn is put
\* behind everything that does not sort after it.
\* The insertion that puts an item in front of the items of equal key.
insert_sorted_before_equal(sorted, x) ==
    LET before == {i \in DOMAIN sorted : sorted[i].key > x.key}
        n == Cardinality(before)
    IN  SubSeq(sorted, 1, n) \o <<x>> \o SubSeq(sorted, n + 1, Len(sorted))

insert_sorted(sorted, x) ==
    LET before == {i \in DOMAIN sorted : sorted[i].key >= x.key}
        n == Cardinality(before)
    IN  SubSeq(sorted, 1, n) \o <<x>> \o SubSeq(sorted, n + 1, Len(sorted))

RECURSIVE sorted_reverse_from(_, _, _)
sorted_reverse_from(items, i, sorted) ==
    IF i > Len(items) THEN sorted
    ELSE sorted_reverse_from(items, i + 1, insert_sorted(sorted, items[i]))

sorted_reverse(items) ==
    LET sorted == sorted_reverse_from(items, 1, <<>>)
    IN  [i \in DOMAIN sorted |-> sorted[i].item]

\* The count kept by deleting the key and inserting it again, which moves it
\* to the end of the dict.
count_skill_reinserted(skills, skill) ==
    LET others == SelectSeq(skills, LAMBDA item : item[1] # skill)
        counted == SelectSeq(skills, LAMBDA item : item[1] = skill)
    IN  IF counted = <<>> THEN Append(skills, <<skill, 1>>)
        ELSE Append(others, <<skill, counted[1][2] + 1>>)

\* skills[skill] = skills.get(skill, 0) + 1 on a dict kept as the list of its
\* <<skill, count>> items in insertion order
count_skill(skills, skill) ==
    IF \E i \in DOMAIN skills : skills[i][1] = skill
    THEN [i \in DOMAIN skills |->
            IF skills[i][1] = skill THEN <<skill, skills[i][2] + 1>> ELSE skills[i]]
    ELSE Append(skills, <<skill, 1>>)

RECURSIVE count_skills_from(_, _, _)
count_skills_from(all_skills, i, skills) ==
    IF i > Len(all_skills) THEN skills
    ELSE count_skills_from(all_skills, i + 1, count_skill(skills, all_skills[i]))

_analyze_skills(jobs) ==
    LET all_skills == concat_all([i \in DOMAIN jobs |-> jobs[i].skills_required])
        skills == count_skills_from(all_skills, 1, <<>>)
        ranked == sorted_reverse([i \in DOMAIN skills |->
                                     [key |-> skills[i][2], item |-> skills[i]]])
    IN  SubSeq(ranked, 1, Min2(10, Len(ranked)))

opportunity(job) ==
    [job_id |-> job.job_id, title |-> job.title, score |-> job.opportunity_score,
     budget |-> job.budget, proposals |-> job.proposals,
     category |-> category_key(job)]

_find_opportunities(jobs) ==
    LET opportunities ==
            SelectSeq([i \in DOMAIN jobs |-> opportunity(jobs[i])],
                      LAMBDA o : o.score >= 7)
    IN  sorted_reverse([i \in DOMAIN opportunities |->
                           [key |-> opportunities[i].score, item |-> opportunities[i]]])

\* The report with total_jobs counting the input list: len(job_posts).
build_analysis_counting_input(jobs) ==
    [returned |-> TRUE,
     total_jobs |-> Len(job_posts),
     categories |-> _analyze_categories(jobs),
     budgets |-> _analyze_budgets(jobs),
     competition |-> _analyze_competition(jobs),
     top_skills |-> _analyze_skills(jobs),
     opportunities |-> _find_opportunities(jobs),
     processed_jobs |-> jobs]

\* The dict analyze_batch returns.
build_analysis(jobs) ==
    [returned |-> TRUE,
     total_jobs |-> Len(jobs),
     categories |-> _analyze_categories(jobs),
     budgets |-> _analyze_budgets(jobs),
     competition |-> _analyze_competition(jobs),
     top_skills |-> _analyze_skills(jobs),
     opportunities |-> _find_opportunities(jobs),
     processed_jobs |-> jobs]

----------------------------------------------------------------------------
(* Bounds and input sets *)

MaxBudgetLen == 5
MaxSkills == 4
MaxFrags == 2
MaxBatch == 3

\* Every string of at most n characters of the alphabet.
RECURSIVE StringsUpTo(_, _)
StringsUpTo(alphabet, n) ==
    IF n = 0 THEN {""}
    ELSE LET shorter == StringsUpTo(alphabet, n - 1)
         IN  shorter \cup {s \o c : s \in shorter, c \in alphabet}

\* Budget texts: the digits that write the tier limits 49, 50, 499, 500, 4999
\* and 5000, the thousands separator and a range dash; and texts as posted.
BudgetAlphabet == {"0", "4", "5", "9", ",", "-"}

BudgetTexts ==
    StringsUpTo(BudgetAlphabet, MaxBudgetLen)
    \cup {"$500-1000", "$1,000", "$1000-500", "$49", "$5000+", "negotiable",
          "Fixed price", "$,", "10,000,000", "1,5 to 2,5k"}

\* Job texts: concatenations of at most MaxFrags fragments.
Fragments == {"React", " ", "native", "UI", "bot", "AI"}

RECURSIVE TextsUpTo(_)
TextsUpTo(n) ==
    IF n = 0 THEN {""}
    ELSE LET shorter == TextsUpTo(n - 1)
         IN  shorter \cup {s \o f : s \in shorter, f \in Fragments}

Texts == TextsUpTo(MaxFrags)

\* The second text of a call that takes two is one fragment or none.
ShortTexts == TextsUpTo(1)

\* Descriptions: the short texts and two sentences in mixed and upper case.
Descriptions == ShortTexts \cup {"I need a React developer", "REACT APP"}

\* Skill lists a caller may pass to categorize_job.
SkillLists == {<<>>, <<"logo">>, <<"react", "ui">>}

SkillPool == <<"react", "ui", "logo", "bot", "ai", "css", "php">>

ScoreJobs ==
    {JobPost(PyStr("j"), PyStr(""), budget, PyStr(""), SubSeq(SkillPool, 1, k),
             PyStr(""), client_history, proposals, PyStr(""), 0,
             "web_development", "frontend", PyStr(""))
     : budget \in {"micro", "small", "medium", "large", "unknown", "negotiable"},
       k \in 0..MaxSkills,
       client_history \in {PyStr(""), PyStr("Established client"),
                           PyStr("ESTABLISHED"), PyStr("new client"), PyNone},
       proposals \in {0 - 5, 0, 9, 10, 24, 25, 50, 51, 10000000}}

\* Skill lists of processed jobs: short ones that share skills in different
\* orders, and two of eleven skills, one more than the report lists.
JobSkills ==
    {<<"php">>, <<"ui", "react">>, <<"react", "ui">>,
     SubSeq(all_keywords, 1, 11), SubSeq(all_keywords, 9, 19)}

\* Lists of at most n processed jobs, of which only the skills matter.
RECURSIVE SkillJobsUpTo(_)
SkillJobsUpTo(n) ==
    IF n = 0 THEN {<<>>}
    ELSE LET shorter == SkillJobsUpTo(n - 1)
         IN  shorter \cup
             {Append(jobs, JobPost(PyStr(""), PyStr(""), "unknown", PyStr(""), skills,
                                   PyStr(""), PyStr(""), 0, PyStr(""), 5,
                                   "web_development", "frontend", PyStr("")))
              : jobs \in shorter, skills \in JobSkills}

\* sample_jobs[0] of main()
sample_job ==
    Record([id |-> PyStr("sample1"), title |-> PyStr("React Developer Needed"),
            description |-> PyStr("Looking for a React developer to build a modern web application"),
            budget |-> PyStr("$500-1000"), timeline |-> PyStr("2 weeks"),
            client_location |-> PyStr("USA"),
            client_history |-> PyStr("Established client"), proposals |-> PyInt(15)])

\* Raw records for batches: well-formed records over the range of scores,
\* among them the sample of main(), two records sharing an id, and the ways a
\* record can be malformed.
BatchRecords ==
    { Record(<<>>),
      sample_job,
      Record([id |-> PyStr("a"), title |-> PyStr("Logo"), budget |-> PyStr("$30"),
              proposals |-> PyInt(60)]),
      Record([id |-> PyStr("a"), budget |-> PyStr("1,000"), proposals |-> PyInt(51)]),
      Record([id |-> PyStr("b"), budget |-> PyStr("$50"), proposals |-> PyInt(30)]),
      Record([id |-> PyStr("c"), budget |-> PyStr("$5000"), proposals |-> PyInt(10000000),
              description |-> PyStr("Chatbot")]),
      Record([id |-> PyStr("d"), budget |-> PyNone, proposals |-> PyStr("12"),
              title |-> PyStr("UX")]),
      Record([id |-> PyStr("e"), description |-> PyNone]),
      Record([id |-> PyInt(6), proposals |-> PyStr("abc")]),
      Record([id |-> PyStr("f"), budget |-> PyStr("negotiable"), proposals |-> PyInt(24)]),
      Record([budget |-> PyInt(500)]),
      NotADict }

\* Raw records for direct calls of process_job_post: the records of batches,
\* and every combination of present, absent, well-typed and ill-typed values
\* of the fields it reads.
RawRecords ==
    {NotADict} \cup BatchRecords \cup
    {[mapping |-> TRUE,
      fields |-> [k \in Fields |->
          CASE k = "title" -> title
            [] k = "description" -> description
            [] k = "budget" -> budget
            [] k = "proposals" -> proposals
            [] k = "client_history" -> client_history
            [] OTHER -> PyAbsent]]
     : title \in {PyAbsent, PyStr("React Native"), PyInt(7)},
       description \in {PyAbsent, PyStr("Logo"), PyNone},
       budget \in {PyAbsent, PyStr(""), PyStr("negotiable"), PyStr("$500-1000"),
                   PyStr("$5,000"), PyNone, PyInt(0), PyInt(500)},
       proposals \in {PyAbsent, PyInt(5), PyInt(60), PyStr("15"), PyStr("abc"), PyNone},
       client_history \in {PyAbsent, PyStr("Established client"), PyNone}}

----------------------------------------------------------------------------
(* State machine *)

NoCall == [fn |-> "none"]
NoReport == [returned |-> FALSE]

Init ==
    /\ job_posts = <<>>
    /\ pc = "idle"
    /\ idx = 0
    /\ processed_jobs = <<>>
    /\ log = <<>>
    /\ analysis = NoReport
    /\ analyzer = [skill_keywords |-> skill_keywords, budget_ranges |-> budget_ranges]
    /\ call = NoCall

\* No method assigns to self.skill_keywords or self.budget_ranges, or calls a
\* mutating method on them: every action leaves analyzer as it is.
batch_vars == <<job_posts, pc, idx, processed_jobs, log, analysis, analyzer>>

(* Direct calls of the analyzer's methods. *)

CallExtractBudget ==
    /\ call.fn = "none"
    /\ \E budget_text \in BudgetTexts :
          call' = [fn |-> "extract_budget",
                   budget_text |-> budget_text,
                   numbers |-> budget_numbers(budget_text),
                   result |-> extract_budget(PyStr(budget_text))]
    /\ UNCHANGED batch_vars

CallCalculateOpportunityScore ==
    /\ call.fn = "none"
    /\ \E job \in ScoreJobs :
          call' = [fn |-> "calculate_opportunity_score",
                   job |-> job,
                   result |-> calculate_opportunity_score(job)]
    /\ UNCHANGED batch_vars

CallCategorizeJob ==
    /\ call.fn = "none"
    /\ \E skills \in SkillLists, title \in Texts, description \in ShortTexts :
          call' = [fn |-> "categorize_job",
                   skills |-> skills,
                   title |-> title,
                   description |-> description,
                   category_scores |-> category_scores(lower(title \o " " \o description)),
                   result |-> categorize_job(skills, title, description)]
    /\ UNCHANGED batch_vars

CallExtractSkills ==
    /\ call.fn = "none"
    /\ \E description \in Descriptions, title \in Texts :
          \E skills \in extract_skills(description, title) :
              call' = [fn |-> "extract_skills",
                       description |-> description,
                       title |-> title,
                       result |-> skills]
    /\ UNCHANGED batch_vars

CallAnalyzeSkills ==
    /\ call.fn = "none"
    /\ \E jobs \in SkillJobsUpTo(MaxBatch) :
          call' = [fn |-> "_analyze_skills",
                   jobs |-> jobs,
                   result |-> _analyze_skills(jobs)]
    /\ UNCHANGED batch_vars

CallProcessJobPost ==
    /\ call.fn = "none"
    /\ \E job_data \in RawRecords :
          \E outcome \in process_job_post(job_data) :
              call' = [fn |-> "process_job_post",
                       job_data |-> job_data,
                       result |-> outcome]
    /\ UNCHANGED batch_vars

Return ==
    /\ call.fn # "none"
    /\ call' = NoCall
    /\ UNCHANGED batch_vars

NextCalls ==
    \/ CallExtractBudget
    \/ CallCalculateOpportunityScore
    \/ CallCategorizeJob
    \/ CallExtractSkills
    \/ CallAnalyzeSkills
    \/ CallProcessJobPost
    \/ Return

SpecCalls == Init /\ [][NextCalls]_vars

(* The caller assembles a list and calls analyze_batch, which runs its loop
   one record at a time and then builds the report. *)

\* processed_jobs.insert(0, job)
prepend_job(jobs, job) == <<job>> \o jobs

\* The job appended only when no job of the list carries its id.
append_job_unless_id_seen(jobs, job) ==
    IF \E i \in DOMAIN jobs : jobs[i].job_id = job.job_id THEN jobs ELSE Append(jobs, job)

\* processed_jobs.append(job)
append_job(jobs, job) == Append(jobs, job)

\* self.process_job_post(job_data) as called by the loop: the outcomes of each
\* record of the input set, computed once.
process_outcomes == [job_data \in BatchRecords |-> process_job_post(job_data)]

AddRecord ==
    /\ pc = "idle"
    /\ Len(job_posts) < MaxBatch
    /\ \E job_data \in BatchRecords : job_posts' = Append(job_posts, job_data)
    /\ UNCHANGED <<pc, idx, processed_jobs, log, analysis, analyzer, call>>

CallAnalyzeBatch ==
    /\ pc = "idle"
    /\ pc' = "loop"
    /\ idx' = 1
    /\ processed_jobs' = <<>>
    /\ UNCHANGED <<job_posts, log, analysis, analyzer, call>>

\* A pass of the loop that takes the keywords it looked up out of the
\* taxonomy and drops the record.
ProcessRecordClearingTaxonomy ==
    /\ pc = "loop"
    /\ idx <= Len(job_posts)
    /\ idx' = idx + 1
    /\ analyzer' = [analyzer EXCEPT !.skill_keywords = <<>>]
    /\ UNCHANGED <<job_posts, pc, processed_jobs, log, analysis, call>>

\* One pass of the for loop: the try block, and the except clause when the
\* try block raised. The except clause itself calls job_data.get, and what
\* that raises leaves analyze_batch.
ProcessRecord ==
    /\ pc = "loop"
    /\ idx <= Len(job_posts)
    /\ LET job_data == job_posts[idx]
       IN  \E outcome \in process_outcomes[job_data] :
              IF outcome.exc = ""
              THEN /\ processed_jobs' = append_job(processed_jobs, outcome.val)
                   /\ idx' = idx + 1
                   /\ UNCHANGED <<pc, log>>
              ELSE IF job_data.mapping
              THEN /\ log' = Append(log, <<get(job_data, "id", PyStr("unknown")), outcome.exc>>)
                   /\ idx' = idx + 1
                   /\ UNCHANGED <<pc, processed_jobs>>
              ELSE /\ pc' = "raised"
                   /\ UNCHANGED <<idx, processed_jobs, log>>
    /\ UNCHANGED <<job_posts, analysis, analyzer, call>>

ReturnAnalysis ==
    /\ pc = "loop"
    /\ idx > Len(job_posts)
    /\ analysis' = build_analysis(processed_jobs)
    /\ pc' = "done"
    /\ UNCHANGED <<job_posts, idx, processed_jobs, log, analyzer, call>>

Next ==
    \/ AddRecord
    \/ CallAnalyzeBatch
    \/ ProcessRecord
    \/ ReturnAnalysis

Spec == Init /\ [][Next]_vars

(* analyze_batch on longer lists: the caller starts with a list of up to three
   records with proposals 60, 51 and "12" followed by up to MaxFill records
   that are all empty or all failing. *)

MaxFill == 4

LongBatches ==
    LET head == << Record([id |-> PyStr("a"), title |-> PyStr("Logo"),
                           budget |-> PyStr("$30"), proposals |-> PyInt(60)]),
                   Record([id |-> PyStr("a"), budget |-> PyStr("1,000"),
                           proposals |-> PyInt(51)]),
                   Record([id |-> PyStr("d"), budget |-> PyNone, proposals |-> PyStr("12"),
                           title |-> PyStr("UX")]) >>
    IN  {SubSeq(head, 1, h) \o [i \in 1..k |-> filler] :
            h \in 0..Len(head), k \in 0..MaxFill,
            filler \in {Record(<<>>), Record([id |-> PyStr("e"), description |-> PyNone])}}

InitLongBatch ==
    /\ job_posts \in LongBatches
    /\ pc = "idle"
    /\ idx = 0
    /\ processed_jobs = <<>>
    /\ log = <<>>
    /\ analysis = NoReport
    /\ analyzer = [skill_keywords |-> skill_keywords, budget_ranges |-> budget_ranges]
    /\ call = NoCall

NextLongBatch ==
    \/ CallAnalyzeBatch
    \/ ProcessRecord
    \/ ReturnAnalysis

SpecLongBatch == InitLongBatch /\ [][NextLongBatch]_vars

----------------------------------------------------------------------------
(* StoryGenerator.generate_story (week-01/src/models/story_generator.py) *)

\* self.genre_prompts
genre_prompts ==
    [fantasy |-> "In a magical realm where dragons soar through crystal skies",
     mystery |-> "The detective arrived at the scene just as the fog began to lift",
     horror |-> "The old house at the end of Maple Street had been empty for decades",
     adventure |-> "The treasure map was torn and faded, but the X was still visible",
     thriller |-> "The phone rang at exactly midnight, just as they had warned",
     comedy |-> "It was supposed to be a simple trip to the grocery store"]
    @@ ("sci-fi" :> "In the year 2157, aboard the starship Odyssey")
    @@ ("romance" :> "Their eyes met across the crowded cafÃ© on a rainy Tuesday morning")

\* s.strip(), for texts whose only white space is the blank
strip(s) == rstrip(lstrip(s))

\* len(s.split()): the number of maximal runs of non-blank characters
word_count(s) ==
    Cardinality({i \in 1..Len(s) :
                    /\ CharAt(s, i) # " "
                    /\ i = 1 \/ CharAt(s, i - 1) = " "})

\* s[n:]
slice_from(s, n) == IF n >= Len(s) THEN "" ELSE SubSeq(s, n + 1, Len(s))

_build_prompt(user_prompt, genre) ==
    LET genre_intro == IF genre \in DOMAIN genre_prompts THEN genre_prompts[genre] ELSE ""
    IN  IF genre_intro # "" /\ genre # "general"
        THEN genre_intro \o ". " \o user_prompt
        ELSE user_prompt

\* max_tokens as the helpers receive it
tokens_for(length, max_tokens) ==
    IF max_tokens = PyNone
    THEN CASE length = "short" -> 150
           [] length = "medium" -> 300
           [] length = "long" -> 500
           [] OTHER -> 300
    ELSE max_tokens.n

\* _generate_with_huggingface letting what the pipeline raises leave it.
_generate_with_huggingface_unguarded(backend, prompt, max_tokens, temperature) ==
    IF backend.generator.exc # ""
    THEN Raise(backend.generator.exc)
    ELSE LET generated_text == prompt \o backend.generator.val
         IN  Ok(strip(slice_from(generated_text, Len(prompt))))

\* backend.generator is what self.generator(prompt, ...) does: it raises, or
\* it yields the prompt followed by a continuation.
_generate_with_huggingface(backend, prompt, max_tokens, temperature) ==
    IF backend.generator.exc # ""
    THEN Ok("I apologize, but I'm having trouble generating a story right now. Please try again.")
    ELSE LET generated_text == prompt \o backend.generator.val
         IN  Ok(strip(slice_from(generated_text, Len(prompt))))

\* backend.openai is what openai.Completion.create(...).choices[0].text does.
_generate_with_openai(backend, prompt, max_tokens, temperature) ==
    IF backend.openai.exc # ""
    THEN _generate_with_huggingface(backend, prompt, max_tokens, temperature)
    ELSE Ok(strip(backend.openai.val))

\* The dict generate_story returns. this is the object (use_openai,
\* model_name), backend what the import and the two services do in this call.
generate_story(this, backend, prompt, genre, length, temperature, max_tokens) ==
    LET full_prompt == _build_prompt(prompt, genre)
        tokens == tokens_for(length, max_tokens)
        story == IF this.use_openai /\ backend.OPENAI_AVAILABLE
                 THEN _generate_with_openai(backend, full_prompt, tokens, temperature)
                 ELSE _generate_with_huggingface(backend, full_prompt, tokens, temperature)
    IN  IF story.exc = ""
        THEN [story |-> story.val,
              prompt |-> prompt,
              genre |-> genre,
              length |-> length,
              model |-> IF this.use_openai THEN "OpenAI GPT" ELSE this.model_name,
              word_count |-> word_count(story.val),
              temperature |-> temperature]
        ELSE [story |-> "Sorry, I encountered an error while generating your story. Please try again with a different prompt.",
              error |-> story.exc,
              prompt |-> prompt,
              genre |-> genre]

StoryGenerators ==
    [use_openai : BOOLEAN, model_name : {"gpt2", "microsoft/DialoGPT-medium"}]

\* What the environment does during one call: whether the openai module was
\* importable, the completion text or the error of the OpenAI call, and the
\* continuation or the error of the pipeline (AttributeError when no
\* pipeline was ever loaded).
Backends ==
    [OPENAI_AVAILABLE : BOOLEAN,
     openai : {[exc |-> "", val |-> " A tale of two robots. "],
               [exc |-> "RateLimitError", val |-> ""]},
     generator : {[exc |-> "", val |-> ""],
                  [exc |-> "", val |-> " Once upon a time "],
                  [exc |-> "RuntimeError", val |-> ""],
                  [exc |-> "AttributeError", val |-> ""]}]

Prompts == {"", "A dragon learns to code"}
Genres == {"general", "fantasy", "western"}
Lengths == {"short", "medium", "long", "epic"}
Temperatures == {"0.7", "1.0"}
TokenLimits == {PyNone, PyInt(50)}

CallGenerateStory ==
    /\ call.fn = "none"
    /\ \E this \in StoryGenerators, backend \in Backends, prompt \in Prompts,
          genre \in Genres, length \in Lengths, temperature \in Temperatures,
          max_tokens \in TokenLimits :
          call' = [fn |-> "generate_story",
                   this |-> this,
                   backend |-> backend,
                   prompt |-> prompt,
                   genre |-> genre,
                   length |-> length,
                   temperature |-> temperature,
                   max_tokens |-> max_tokens,
                   result |-> generate_story(this, backend, prompt, genre, length,
                                             temperature, max_tokens)]
    /\ UNCHANGED batch_vars

NextStory ==
    \/ CallGenerateStory
    \/ Return

SpecStory == Init /\ [][NextStory]_vars

----------------------------------------------------------------------------
(* retry (week-01/src/utils.py): one call of the wrapper, one pass of its
   for loop at a time. *)

MaxAttempts == 3

\* delay and backoff, whole numbers so that the products are exact
Delays == {1, 2}
Backoffs == {1, 2, 3}

\* What one invocation of the wrapped function does: it returns a value or
\* raises an Exception.
FuncOutcomes ==
    {[exc |-> "", val |-> "result"],
     [exc |-> "ValueError", val |-> ""],
     [exc |-> "ConnectionError", val |-> ""]}

\* wrapper(*args, **kwargs) up to the for statement
CallWrapper ==
    /\ call.fn = "none"
    /\ \E max_attempts \in 0..MaxAttempts, delay \in Delays, backoff \in Backoffs :
          call' = [fn |-> "retry.wrapper",
                   max_attempts |-> max_attempts,
                   delay |-> delay,
                   backoff |-> backoff,
                   at |-> "for",
                   attempt |-> 0,
                   current_delay |-> delay,
                   last_exception |-> "None",
                   invocations |-> <<>>,
                   sleeps |-> <<>>,
                   result |-> [exc |-> "", val |-> ""]]
    /\ UNCHANGED batch_vars

\* One pass of `for attempt in range(max_attempts)`: the function is invoked;
\* its value is returned, or its exception is re-raised on the last pass, or
\* the wrapper sleeps and goes on.
Attempt ==
    /\ call.fn = "retry.wrapper"
    /\ call.at = "for"
    /\ call.attempt < call.max_attempts
    /\ \E outcome \in FuncOutcomes :
          LET invoked == [call EXCEPT !.invocations = Append(@, outcome)]
          IN  IF outcome.exc = ""
              THEN call' = [invoked EXCEPT !.at = "done", !.result = outcome]
              ELSE IF call.attempt = call.max_attempts - 1
              THEN call' = [invoked EXCEPT !.last_exception = outcome.exc,
                                           !.at = "done",
                                           !.result = outcome]
              ELSE call' = [invoked EXCEPT !.last_exception = outcome.exc,
                                           !.sleeps = Append(@, call.current_delay),
                                           !.current_delay = @ * call.backoff,
                                           !.attempt = @ + 1]
    /\ UNCHANGED batch_vars

\* `raise last_exception` after the loop ran out: raising None is a TypeError.
RaiseLastException ==
    /\ call.fn = "retry.wrapper"
    /\ call.at = "for"
    /\ call.attempt >= call.max_attempts
    /\ call' = [call EXCEPT
                   !.at = "done",
                   !.result = [exc |-> IF call.last_exception = "None"
                                       THEN "TypeError"
                                       ELSE call.last_exception,
                               val |-> ""]]
    /\ UNCHANGED batch_vars

\* The wrapper has returned or raised; the caller goes on.
LeaveWrapper ==
    /\ call.fn = "retry.wrapper"
    /\ call.at = "done"
    /\ call' = NoCall
    /\ UNCHANGED batch_vars

NextRetry ==
    \/ CallWrapper
    \/ Attempt
    \/ RaiseLastException
    \/ LeaveWrapper

SpecRetry == Init /\ [][NextRetry]_vars

----------------------------------------------------------------------------
(* Properties *)

\* Whether processing the record raises (it does so whatever the order of the skills).
Raises(job_data) == \E outcome \in process_job_post(job_data) : outcome.exc # ""

\* The same for a record of a batch.
RaisesInBatch(job_data) == \E outcome \in process_outcomes[job_data] : outcome.exc # ""

BudgetTiers == {"micro", "small", "medium", "large", "unknown"}

\* The tier whose half-open interval holds the amount m.
TierOfAmount(m) ==
    IF m < 50 THEN "micro"
    ELSE IF m < 500 THEN "small"
    ELSE IF m < 5000 THEN "medium"
    ELSE "large"

TierRank(tier) ==
    CASE tier = "micro" -> 1
      [] tier = "small" -> 2
      [] tier = "medium" -> 3
      [] tier = "large" -> 4
      [] OTHER -> 0

MaxOfSet(S) == CHOOSE m \in S : \A v \in S : v <= m

NoDigit(s) == \A i \in 1..Len(s) : ~IsDigit(CharAt(s, i))

\* C1: calculate_opportunity_score returns a score between 1 and 10 for every
\* job whose client history is text: whatever the budget tier, the number of
\* proposals (10,000,000 among them) and the number of skills; and so does the
\* score of every JobPost that process_job_post builds.
C1_ScoreWithinBounds ==
    /\ (call.fn = "calculate_opportunity_score" /\ IsStr(call.job.client_history))
            => (call.result.exc = "" /\ call.result.val \in 1..10)
    /\ (call.fn = "process_job_post" /\ call.result.exc = "")
            => call.result.val.opportunity_score \in 1..10

\* A large-budget job with 10,000,000 proposals, three skills or more and an
\* established client: the sum is 13 and the score returned is 10.
C1_ExtremeJobScored ==
    /\ call.fn = "calculate_opportunity_score"
    /\ call.job.proposals = 10000000
    /\ call.job.budget = "large"
    /\ Len(call.job.skills_required) >= 3
    /\ call.job.client_history = PyStr("Established client")
    /\ call.result.exc = ""
    /\ call.result.val = 10

\* C2: analyze_batch never lets an exception out: whatever the records are,
\* the loop runs to its end and a report is returned.
C2_BatchNeverRaises ==
    /\ pc # "raised"
    /\ pc = "done" => analysis.returned

\* C3: in a returned report total_jobs is the length of processed_jobs and the
\* number of input records whose processing did not raise; the records that
\* raised are the ones logged, and they are not counted.
C3_TotalJobsCountsSurvivors ==
    analysis.returned =>
        /\ analysis.total_jobs = Len(analysis.processed_jobs)
        /\ analysis.total_jobs =
              Cardinality({i \in DOMAIN job_posts : ~RaisesInBatch(job_posts[i])})
        /\ Len(log) = Cardinality({i \in DOMAIN job_posts : RaisesInBatch(job_posts[i])})

\* A report on three records of which the second raised: total_jobs is 2.
C3_OneOfThreeDropped ==
    /\ analysis.returned
    /\ Len(job_posts) = 3
    /\ ~RaisesInBatch(job_posts[1])
    /\ RaisesInBatch(job_posts[2])
    /\ ~RaisesInBatch(job_posts[3])
    /\ analysis.total_jobs = 2

\* The positions, in rising order, of the first n records that do not raise.
Survivors(n) == SelectSeq([i \in 1..n |-> i], LAMBDA i : ~RaisesInBatch(job_posts[i]))

\* C4: at every point of the loop processed_jobs holds, in input order, a
\* JobPost of each record handled so far whose processing did not raise, and
\* nothing else; the report carries that list.
C4_InputOrderKept ==
    LET handled == IF pc = "idle" THEN 0 ELSE idx - 1
        survivors == Survivors(handled)
    IN  /\ Len(processed_jobs) = Len(survivors)
        /\ \A k \in DOMAIN survivors :
              Ok(processed_jobs[k]) \in process_outcomes[job_posts[survivors[k]]]
        /\ analysis.returned => analysis.processed_jobs = processed_jobs

\* A report on three records with different ids, the second of which raised:
\* the first and the third are listed, in that order.
C4_SurvivorsInOrder ==
    /\ analysis.returned
    /\ Len(job_posts) = 3
    /\ RaisesInBatch(job_posts[2])
    /\ Len(analysis.processed_jobs) = 2
    /\ analysis.processed_jobs[1].job_id = PyStr("sample1")
    /\ analysis.processed_jobs[2].job_id = PyStr("b")

\* The processed jobs that score 7 or more, in processing order.
Shortlisted == SelectSeq(analysis.processed_jobs, LAMBDA job : job.opportunity_score >= 7)

\* The place of the i-th of jobs in a descending stable order of the scores.
PlaceByScore(jobs, i) ==
    1 + Cardinality({j \in DOMAIN jobs :
            \/ jobs[j].opportunity_score > jobs[i].opportunity_score
            \/ jobs[j].opportunity_score = jobs[i].opportunity_score /\ j < i})

\* C5: opportunities holds one entry for each processed job scoring 7 or
\* more and none for the others, in descending order of score, entries of
\* equal score in the order of processed_jobs.
C5_OpportunitiesRanked ==
    analysis.returned =>
        LET jobs == Shortlisted
            opportunities == analysis.opportunities
        IN  /\ Len(opportunities) = Len(jobs)
            /\ \A i \in DOMAIN jobs :
                  LET entry == opportunities[PlaceByScore(jobs, i)]
                  IN  /\ entry.job_id = jobs[i].job_id
                      /\ entry.title = jobs[i].title
                      /\ entry.score = jobs[i].opportunity_score
                      /\ entry.budget = jobs[i].budget
                      /\ entry.proposals = jobs[i].proposals
                      /\ entry.category = jobs[i].category \o "." \o jobs[i].subcategory
            /\ \A k \in DOMAIN opportunities : opportunities[k].score >= 7
            /\ \A k \in 1..(Len(opportunities) - 1) :
                  opportunities[k].score >= opportunities[k + 1].score

\* Jobs scoring 7, 10, 7 in that order: the 10 is listed first and the two
\* 7s follow in their order of processing.
C5_TieKeptBehindHigherScore ==
    /\ analysis.returned
    /\ Len(analysis.processed_jobs) = 3
    /\ Len(analysis.opportunities) = 3
    /\ analysis.opportunities[1].score > analysis.opportunities[2].score
    /\ analysis.opportunities[2].score = analysis.opportunities[3].score
    /\ analysis.opportunities[1].job_id = analysis.processed_jobs[2].job_id
    /\ analysis.opportunities[2].job_id = analysis.processed_jobs[1].job_id
    /\ analysis.opportunities[3].job_id = analysis.processed_jobs[3].job_id
    /\ analysis.opportunities[2].job_id # analysis.opportunities[3].job_id

\* Amounts at and around the limits of the tiers.
TierMarks == {0, 49, 50, 499, 500, 4999, 5000, 99999}

\* C6: when the text holds a number, extract_budget returns the tier whose
\* half-open interval holds the largest number m found: micro below 50, small
\* from 50 below 500, medium from 500 below 5000, large from 5000; and the
\* tier does not fall when m rises.
C6_TierOfMaximum ==
    (call.fn = "extract_budget" /\ call.numbers # <<>>) =>
        LET m == MaxOfSet({int_of_digits(call.numbers[i]) : i \in DOMAIN call.numbers})
        IN  /\ call.result.exc = ""
            /\ call.result.val = TierOfAmount(m)
            /\ \A v \in TierMarks :
                  /\ v <= m => TierRank(range_name(v)) <= TierRank(call.result.val)
                  /\ v >= m => TierRank(range_name(v)) >= TierRank(call.result.val)

\* The text "5000" is classified large.
C6_FiveThousandIsLarge ==
    /\ call.fn = "extract_budget"
    /\ call.budget_text = "5000"
    /\ call.result.exc = ""
    /\ call.result.val = "large"

\* The candidate numbers of a budget text, read off the text itself: a
\* candidate is a longest stretch of digits and commas that holds a digit, and
\* its value is that of its digits.
IsNumberChar(c) == IsDigit(c) \/ c = ","

NumberRuns(s) ==
    {r \in (1..Len(s)) \X (1..Len(s)) :
        /\ r[1] <= r[2]
        /\ \A k \in r[1]..r[2] : IsNumberChar(CharAt(s, k))
        /\ \E k \in r[1]..r[2] : IsDigit(CharAt(s, k))
        /\ r[1] = 1 \/ ~IsNumberChar(CharAt(s, r[1] - 1))
        /\ r[2] = Len(s) \/ ~IsNumberChar(CharAt(s, r[2] + 1))}

RECURSIVE RunValue(_, _, _, _)
RunValue(s, k, last, acc) ==
    IF k > last THEN acc
    ELSE RunValue(s, k + 1, last,
                  IF CharAt(s, k) = "," THEN acc
                  ELSE acc * 10 + (IndexIn(CharAt(s, k), DIGITS) - 1))

\* C7: extract_budget drops the commas, takes every maximal run of digits as
\* a candidate and classifies the text by the largest candidate, wherever it
\* stands in the text.
C7_MaximumOfAllRuns ==
    call.fn = "extract_budget" =>
        LET runs == NumberRuns(call.budget_text)
            values == {RunValue(call.budget_text, r[1], r[2], 0) : r \in runs}
        IN  /\ Len(call.numbers) = Cardinality(runs)
            /\ {int_of_digits(call.numbers[i]) : i \in DOMAIN call.numbers} = values
            /\ values # {} =>
                  /\ call.result.exc = ""
                  /\ call.result.val = TierOfAmount(MaxOfSet(values))

\* "4-5,0": the candidates are 4 and 50, and the tier is that of 50, the
\* second and larger one.
C7_LaterLargerNumberDecides ==
    /\ call.fn = "extract_budget"
    /\ call.budget_text = "4-5,0"
    /\ call.numbers = <<"4", "50">>
    /\ call.result.exc = ""
    /\ call.result.val = "small"

\* The fields other than budget are such that process_job_post accepts them.
OtherFieldsUsable(job_data) ==
    /\ job_data.mapping
    /\ job_data.fields["title"].t \in {"absent", "str"}
    /\ job_data.fields["description"].t \in {"absent", "str"}
    /\ job_data.fields["client_history"].t \in {"absent", "str"}
    /\ \/ job_data.fields["proposals"].t \in {"absent", "int"}
       \/ /\ job_data.fields["proposals"].t = "str"
          /\ job_data.fields["proposals"].s # ""
          /\ \A i \in 1..Len(job_data.fields["proposals"].s) :
                IsDigit(CharAt(job_data.fields["proposals"].s, i))

\* C8: extract_budget returns "unknown" without raising for every text that
\* is empty or holds no digit; a record whose budget is such a text, or is
\* absent, is processed to a JobPost of tier unknown when nothing else is
\* wrong with it.
C8_TextWithoutNumberIsUnknown ==
    /\ (call.fn = "extract_budget" /\ NoDigit(call.budget_text))
            => (call.result.exc = "" /\ call.result.val = "unknown")
    /\ (/\ call.fn = "process_job_post"
        /\ OtherFieldsUsable(call.job_data)
        /\ call.job_data.fields["budget"].t \in {"absent", "str"}
        /\ NoDigit(call.job_data.fields["budget"].s))
            => (call.result.exc = "" /\ call.result.val.budget = "unknown")

\* A record whose budget reads "negotiable" is processed, with tier unknown.
C8_NegotiableRecordKept ==
    /\ call.fn = "process_job_post"
    /\ call.job_data.fields["budget"] = PyStr("negotiable")
    /\ call.result.exc = ""
    /\ call.result.val.budget = "unknown"

\* C9: the budget of every JobPost in processed_jobs, during the loop and in
\* the report, is one of micro, small, medium, large and unknown.
C9_BudgetIsATier ==
    /\ \A i \in DOMAIN processed_jobs : processed_jobs[i].budget \in BudgetTiers
    /\ analysis.returned =>
          \A i \in DOMAIN analysis.processed_jobs :
              analysis.processed_jobs[i].budget \in BudgetTiers

\* A report that lists the record with budget "$500-1000" as medium, the one
\* with budget "negotiable" as unknown, and the one with a null budget as unknown.
C9_RawBudgetsBecomeTiers ==
    /\ analysis.returned
    /\ \E i \in DOMAIN analysis.processed_jobs :
          /\ analysis.processed_jobs[i].job_id = PyStr("sample1")
          /\ analysis.processed_jobs[i].budget = "medium"
    /\ \E i \in DOMAIN analysis.processed_jobs :
          /\ analysis.processed_jobs[i].job_id = PyStr("f")
          /\ analysis.processed_jobs[i].budget = "unknown"
    /\ \E i \in DOMAIN analysis.processed_jobs :
          /\ analysis.processed_jobs[i].job_id = PyStr("d")
          /\ analysis.processed_jobs[i].budget = "unknown"

\* (category, subcategory) names a category of the taxonomy and one of its subcategories.
ValidPair(category, subcategory) ==
    \E c \in DOMAIN skill_keywords :
        /\ skill_keywords[c].name = category
        /\ \E s \in DOMAIN skill_keywords[c].subs :
              skill_keywords[c].subs[s].name = subcategory

\* C10: categorize_job returns a category of the taxonomy and a subcategory
\* of that category for every title and description, and every JobPost that
\* process_job_post builds carries such a pair.
C10_CategoryPairValid ==
    /\ call.fn = "categorize_job" => ValidPair(call.result[1], call.result[2])
    /\ (call.fn = "process_job_post" /\ call.result.exc = "")
            => ValidPair(call.result.val.category, call.result.val.subcategory)

\* A title and description in which no keyword occurs still get a valid pair.
C10_NoKeywordStillValid ==
    /\ call.fn = "categorize_job"
    /\ call.title = ""
    /\ call.description = " "
    /\ hits(all_keywords, lower(call.title \o " " \o call.description)) = 0
    /\ ValidPair(call.result[1], call.result[2])

\* The keywords of category c, and of its subcategory s, that occur in the text.
CategoryMatches(c, text) ==
    UNION {{<<s, k>> : k \in {i \in DOMAIN skill_keywords[c].subs[s].keywords :
                                contains(skill_keywords[c].subs[s].keywords[i], text)}}
           : s \in DOMAIN skill_keywords[c].subs}

SubcategoryMatches(c, s, text) == {sk \in CategoryMatches(c, text) : sk[1] = s}

\* C11: the categories are declared in the order web_development, mobile_apps,
\* ai_ml, design; categorize_job returns a category with the largest number of
\* matching keywords and, among those, the one declared first; within it the
\* subcategory with the largest number and, among those, the one declared
\* first; and (web_development, frontend) when no keyword matches.
C11_FirstDeclaredWinsTies ==
    /\ [c \in DOMAIN skill_keywords |-> skill_keywords[c].name]
            = <<"web_development", "mobile_apps", "ai_ml", "design">>
    /\ skill_keywords[1].subs[1].name = "frontend"
    /\ call.fn = "categorize_job" =>
        LET text == lower(call.title \o " " \o call.description)
            n == [c \in DOMAIN skill_keywords |-> Cardinality(CategoryMatches(c, text))]
        IN  /\ \E c \in DOMAIN skill_keywords :
                  /\ skill_keywords[c].name = call.result[1]
                  /\ \A d \in DOMAIN skill_keywords :
                        /\ n[d] <= n[c]
                        /\ d < c => n[d] < n[c]
                  /\ LET m == [s \in DOMAIN skill_keywords[c].subs |->
                                  Cardinality(SubcategoryMatches(c, s, text))]
                     IN  \E s \in DOMAIN m :
                            /\ skill_keywords[c].subs[s].name = call.result[2]
                            /\ \A r \in DOMAIN m :
                                  /\ m[r] <= m[s]
                                  /\ r < s => m[r] < m[s]
            /\ (\A c \in DOMAIN skill_keywords : n[c] = 0)
                    => call.result = <<"web_development", "frontend">>

\* Title "UI" and description "React": design and web_development match one
\* keyword each, and web_development, declared first, is returned.
C11_TieGoesToWebDevelopment ==
    /\ call.fn = "categorize_job"
    /\ call.title = "UI"
    /\ call.description = "React"
    /\ Cardinality(CategoryMatches(1, "ui react")) = 1
    /\ Cardinality(CategoryMatches(4, "ui react")) = 1
    /\ call.result = <<"web_development", "frontend">>

TaxonomyKeywords ==
    UNION {UNION {SeqToSet(skill_keywords[c].subs[s].keywords)
                  : s \in DOMAIN skill_keywords[c].subs}
           : c \in DOMAIN skill_keywords}

\* The capital of each small letter.
CapitalOf ==
    [a \in {CharAt(LOWER, i) : i \in 1..Len(LOWER)} |-> CharAt(UPPER, IndexIn(a, LOWER))]

\* The character b is the character a, or its capital.
SameLetter(a, b) ==
    \/ a = b
    \/ a \in DOMAIN CapitalOf /\ CapitalOf[a] = b

\* The keyword stands somewhere in the text, letter case apart.
OccursIgnoringCase(keyword, text) ==
    \E p \in 1..(Len(text) - Len(keyword) + 1) :
        \A i \in 1..Len(keyword) : SameLetter(CharAt(keyword, i), CharAt(text, p + i - 1))

\* C13: extract_skills returns, once each, exactly the taxonomy keywords that
\* stand in the description, a space and the title, letter case apart: nothing
\* else, nothing twice, and the empty list when none does; "I need a React
\* developer" yields "react".
C13_ExactlyTheKeywordsInTheText ==
    call.fn = "extract_skills" =>
        LET text == call.description \o " " \o call.title
            expected == {k \in TaxonomyKeywords : OccursIgnoringCase(k, text)}
        IN  /\ SeqToSet(call.result) = expected
            /\ Len(call.result) = Cardinality(expected)
            /\ SeqToSet(call.result) \subseteq TaxonomyKeywords
            /\ expected = {} => call.result = <<>>
            /\ (call.description = "I need a React developer" /\ call.title = "")
                    => call.result = <<"react">>

\* The description "REACT APP" with an empty title yields the one skill "react".
C13_UpperCaseReactFound ==
    /\ call.fn = "extract_skills"
    /\ call.description = "REACT APP"
    /\ call.title = ""
    /\ call.result = <<"react">>

\* The terms of the score as the contract states them.
BudgetTerm(budget) ==
    CASE budget = "micro" -> 0
      [] budget = "small" -> 2
      [] budget = "medium" -> 4
      [] budget = "large" -> 6
      [] budget = "unknown" -> 0

CompetitionTerm(proposals) ==
    CASE proposals < 10 -> 3
      [] 10 <= proposals /\ proposals < 25 -> 1
      [] 25 <= proposals /\ proposals <= 50 -> 0
      [] proposals > 50 -> 0 - 2

EstablishedTerm(client_history) ==
    IF OccursIgnoringCase("established", client_history) THEN 1 ELSE 0

Clamp(x, lo, hi) == IF x < lo THEN lo ELSE IF x > hi THEN hi ELSE x

\* C14: for a job of one of the five budget tiers whose client history is
\* text, calculate_opportunity_score returns clamp(5 + B + C + min(number of
\* skills, 3) + E, 1, 10): B is 0, 2, 4, 6, 0 for micro, small, medium, large,
\* unknown; C is 3 below 10 proposals, 1 from 10 to 24, 0 from 25 to 50, -2
\* above 50; E is 1 when the history holds "established" in any letter case.
C14_ScoreFormula ==
    (/\ call.fn = "calculate_opportunity_score"
     /\ call.job.budget \in BudgetTiers
     /\ IsStr(call.job.client_history)) =>
        LET count == Len(call.job.skills_required)
        IN  /\ call.result.exc = ""
            /\ call.result.val =
                  Clamp(5 + BudgetTerm(call.job.budget)
                          + CompetitionTerm(call.job.proposals)
                          + (IF count < 3 THEN count ELSE 3)
                          + EstablishedTerm(call.job.client_history.s), 1, 10)

\* A small-budget job with exactly 50 proposals, two skills and a new client
\* scores 5 + 2 + 0 + 2 + 0 = 9.
C14_FiftyProposalsNoPenalty ==
    /\ call.fn = "calculate_opportunity_score"
    /\ call.job.budget = "small"
    /\ call.job.proposals = 50
    /\ Len(call.job.skills_required) = 2
    /\ call.job.client_history = PyStr("new client")
    /\ call.result = Ok(9)

\* The competition level of a proposal count as the contract states it.
LevelOfProposals(proposals) ==
    IF proposals < 10 THEN "low"
    ELSE IF proposals <= 50 THEN "medium"
    ELSE "high"

\* C15: in a returned report the competition distribution counts each
\* processed job as low below 10 proposals, medium from 10 to 50 and high
\* above 50, the limits at which the scorer changes its adjustment.
C15_CompetitionLevels ==
    analysis.returned =>
        \A level \in {"low", "medium", "high"} :
            analysis.competition.distribution[level] =
                Cardinality({i \in DOMAIN analysis.processed_jobs :
                    LevelOfProposals(analysis.processed_jobs[i].proposals) = level})

\* The places <<i, j>> at which the jobs of a call of _analyze_skills name a skill.
SkillPlaces(skill) ==
    UNION {{<<i, j>> : j \in {k \in DOMAIN call.jobs[i].skills_required :
                                call.jobs[i].skills_required[k] = skill}}
           : i \in DOMAIN call.jobs}

\* The skill a is encountered before the skill b: its first place comes first.
EncounteredFirst(a, b) ==
    \E p \in SkillPlaces(a) : \A q \in SkillPlaces(b) :
        p[1] < q[1] \/ (p[1] = q[1] /\ p[2] < q[2])

\* The skill a ranks before the skill b: more occurrences, or as many and
\* encountered first.
RanksBefore(a, b) ==
    \/ Cardinality(SkillPlaces(a)) > Cardinality(SkillPlaces(b))
    \/ /\ Cardinality(SkillPlaces(a)) = Cardinality(SkillPlaces(b))
       /\ EncounteredFirst(a, b)

\* C16: top_skills has at most 10 entries, all there are when there are fewer
\* skills; each entry is a skill of some job with the number of its
\* occurrences over all jobs; no skill is listed twice; an entry has more
\* occurrences than the next, or as many and was encountered first; and every
\* skill left out ranks behind every skill listed.
C16_TopSkillsRanked ==
    call.fn = "_analyze_skills" =>
        LET top == call.result
            named == UNION {SeqToSet(call.jobs[i].skills_required) : i \in DOMAIN call.jobs}
            listed == {top[e][1] : e \in DOMAIN top}
        IN  /\ Len(top) <= 10
            /\ Len(top) = 10 \/ listed = named
            /\ listed \subseteq named
            /\ Cardinality(listed) = Len(top)
            /\ \A e \in DOMAIN top : top[e][2] = Cardinality(SkillPlaces(top[e][1]))
            /\ \A e \in 1..(Len(top) - 1) :
                  /\ top[e][2] >= top[e + 1][2]
                  /\ RanksBefore(top[e][1], top[e + 1][1])
            /\ \A skill \in named \ listed : \A e \in DOMAIN top :
                  RanksBefore(top[e][1], skill)

\* A job with the skill php, then a job with eleven skills of which php is
\* the tenth: php, counted twice, is listed first, the next nine in the order
\* met, and the eleventh, counted once like them, is left out.
C16_EleventhSkillLeftOut ==
    /\ call.fn = "_analyze_skills"
    /\ Len(call.jobs) = 2
    /\ call.jobs[1].skills_required = <<"php">>
    /\ Len(call.jobs[2].skills_required) = 11
    /\ call.jobs[2].skills_required[10] = "php"
    /\ Len(call.result) = 10
    /\ call.result[1] = <<"php", 2>>
    /\ call.result[2] = <<"react", 1>>
    /\ call.result[10] = <<"python", 1>>
    /\ \A e \in DOMAIN call.result : call.result[e][1] # "laravel"

\* The value of a proposals field is absent, null, or text that is not a
\* number written in decimal digits.
ProposalsUnparseable(v) ==
    \/ v.t \in {"absent", "none"}
    \/ v.t = "str" /\ (v.s = "" \/ \E i \in 1..Len(v.s) : ~IsDigit(CharAt(v.s, i)))

\* C17: a record whose proposals field is absent, null or not a number, and
\* whose other fields are absent or text, is processed without raising to a
\* JobPost with proposals = 0.
C17_UnparseableProposalsAreZero ==
    (/\ call.fn = "process_job_post"
     /\ call.job_data.mapping
     /\ \A k \in {"title", "description", "budget", "client_history"} :
            call.job_data.fields[k].t \in {"absent", "str"}
     /\ ProposalsUnparseable(call.job_data.fields["proposals"]))
        => (call.result.exc = "" /\ call.result.val.proposals = 0)

\* Every field the record gives has a value of the kind the field is meant
\* to hold: text, and for proposals an integer or a number in decimal digits.
GivenFieldsUsable(job_data) ==
    /\ job_data.mapping
    /\ \A k \in Fields \ {"id", "proposals"} : job_data.fields[k].t \in {"absent", "str"}
    /\ \/ job_data.fields["proposals"].t = "int"
       \/ ~ProposalsUnparseable(job_data.fields["proposals"])
       \/ job_data.fields["proposals"].t = "absent"

\* C18: process_job_post does not raise on a record of which any fields are
\* absent and the others usable, the empty record included; in the JobPost an
\* absent title, description, timeline, client location, client history, notes
\* or id is the empty string, absent proposals are 0 and an absent budget is
\* the tier unknown.
C18_AbsentFieldsDefault ==
    (call.fn = "process_job_post" /\ GivenFieldsUsable(call.job_data)) =>
        LET absent(k) == call.job_data.fields[k].t = "absent"
            job == call.result.val
        IN  /\ call.result.exc = ""
            /\ absent("id") => job.job_id = PyStr("")
            /\ absent("title") => job.title = PyStr("")
            /\ absent("description") => job.description = PyStr("")
            /\ absent("timeline") => job.timeline = PyStr("")
            /\ absent("client_location") => job.client_location = PyStr("")
            /\ absent("client_history") => job.client_history = PyStr("")
            /\ absent("notes") => job.notes = PyStr("")
            /\ absent("proposals") => job.proposals = 0
            /\ absent("budget") => job.budget = "unknown"

\* The empty record is processed to a JobPost with empty texts, no skills,
\* no proposals and the tier unknown.
C18_EmptyRecordProcessed ==
    /\ call.fn = "process_job_post"
    /\ call.job_data = Record(<<>>)
    /\ call.result.exc = ""
    /\ call.result.val.title = PyStr("")
    /\ call.result.val.skills_required = <<>>
    /\ call.result.val.proposals = 0
    /\ call.result.val.budget = "unknown"
    /\ call.result.val.opportunity_score = 8

\* The processed jobs of the report that were built from the sample record.
SampleJobs == {i \in DOMAIN analysis.processed_jobs :
                  analysis.processed_jobs[i].job_id = PyStr("sample1")}

\* The sample record is in the batch of the report.
SampleInBatch == \E i \in DOMAIN job_posts : job_posts[i] = sample_job

\* C19: in a report on a batch that holds the sample record of main(), the
\* record is processed, as often as it was given, to category web_development,
\* subcategory frontend, budget medium and score 10, and is listed in
\* opportunities with that score.
C19_SampleRecordEndToEnd ==
    (analysis.returned /\ SampleInBatch) =>
        /\ Cardinality(SampleJobs)
              = Cardinality({i \in DOMAIN job_posts : job_posts[i] = sample_job})
        /\ \A i \in SampleJobs :
              LET job == analysis.processed_jobs[i]
              IN  /\ job.title = PyStr("React Developer Needed")
                  /\ job.category = "web_development"
                  /\ job.subcategory = "frontend"
                  /\ job.budget = "medium"
                  /\ job.proposals = 15
                  /\ job.opportunity_score = 10
        /\ \E k \in DOMAIN analysis.opportunities :
              /\ analysis.opportunities[k].job_id = PyStr("sample1")
              /\ analysis.opportunities[k].score = 10
              /\ analysis.opportunities[k].category = "web_development.frontend"
              /\ analysis.opportunities[k].budget = "medium"

\* The report of main(): the sample record alone, processed and listed as
\* the one opportunity.
C19_ReportOfMain ==
    /\ analysis.returned
    /\ job_posts = <<sample_job>>
    /\ analysis.total_jobs = 1
    /\ analysis.processed_jobs[1].opportunity_score = 10
    /\ Len(analysis.opportunities) = 1
    /\ analysis.opportunities[1].job_id = PyStr("sample1")

\* C20 as stated: the one skill extracted from the sample record is "react",
\* the skill term of its score is 1 and the sum before clamping is 12.
C20_SampleHasOneSkill ==
    (analysis.returned /\ SampleInBatch) =>
        \A i \in SampleJobs :
            LET job == analysis.processed_jobs[i]
            IN  /\ job.skills_required = <<"react">>
                /\ skill_factor(job.skills_required) = 1
                /\ unclamped_score(job) = 12

\* C20: two skills are extracted from the sample record, "react" and "ui"
\* (which stands in "build"), in either order; the skill term of its score is
\* min(2, 3) = 2 and the sum before clamping is 5 + 4 + 1 + 2 + 1 = 13, which
\* the clamp brings to 10.
C20_SampleHasTwoSkills ==
    (analysis.returned /\ SampleInBatch) =>
        \A i \in SampleJobs :
            LET job == analysis.processed_jobs[i]
            IN  /\ Len(job.skills_required) = 2
                /\ SeqToSet(job.skills_required) = {"react", "ui"}
                /\ skill_factor(job.skills_required) = 2
                /\ budget_bonus(job.budget) = 4
                /\ competition_factor(job.proposals) = 1
                /\ unclamped_score(job) = 5 + 4 + 1 + 2 + 1
                /\ job.opportunity_score = 10

\* A report on the sample record whose skills came out as "ui", "react".
C20_UiFoundInBuild ==
    /\ analysis.returned
    /\ job_posts = <<sample_job>>
    /\ analysis.processed_jobs[1].skills_required = <<"ui", "react">>
    /\ OccursIgnoringCase("ui", "build")
    /\ unclamped_score(analysis.processed_jobs[1]) = 13

\* The number of places of the text at which the keyword stands.
Occurrences(keyword, text) ==
    Cardinality({p \in 1..(Len(text) - Len(keyword) + 1) :
                    SubSeq(text, p, p + Len(keyword) - 1) = keyword})

\* The occurrences in the text of all the keywords of a list.
OccurrencesOfAll(keywords, text) ==
    sum_of([k \in DOMAIN keywords |-> Occurrences(keywords[k], text)])

\* C23: the score categorize_job gives a category is the sum, over the
\* keywords of all its subcategories, of the number of occurrences of the
\* keyword in the lower-cased title, space and description; the pair returned
\* is the category of the largest such score and, among its own
\* subcategories, the one of the largest such score, the first declared in
\* case of a tie.
C23_ScoresCountOccurrences ==
    call.fn = "categorize_job" =>
        LET text == lower(call.title \o " " \o call.description)
            score == [c \in DOMAIN skill_keywords |->
                        OccurrencesOfAll(keywords_of(skill_keywords[c]), text)]
            best == CHOOSE c \in DOMAIN score :
                        \A d \in DOMAIN score :
                            score[d] < score[c] \/ (score[d] = score[c] /\ c <= d)
            subscore == [s \in DOMAIN skill_keywords[best].subs |->
                            OccurrencesOfAll(skill_keywords[best].subs[s].keywords, text)]
            bestsub == CHOOSE s \in DOMAIN subscore :
                        \A r \in DOMAIN subscore :
                            subscore[r] < subscore[s] \/ (subscore[r] = subscore[s] /\ s <= r)
        IN  /\ call.category_scores = score
            /\ call.result = <<skill_keywords[best].name,
                               skill_keywords[best].subs[bestsub].name>>

\* The sum of the counts of a histogram.
RECURSIVE SumOfCounts(_)
SumOfCounts(histogram) ==
    IF DOMAIN histogram = {} THEN 0
    ELSE LET k == CHOOSE key \in DOMAIN histogram : TRUE
         IN  histogram[k]
             + SumOfCounts([key \in DOMAIN histogram \ {k} |-> histogram[key]])

\* C24: in every report the counts of categories, of budgets and of the
\* competition levels each add up to total_jobs, which is the number of
\* records whose processing did not raise; every key of categories is the
\* "category.subcategory" of a processed job and every key of budgets the
\* tier of one, each with the number of processed jobs that carry it.
C24_ViewsCountProcessedJobsOnly ==
    analysis.returned =>
        LET jobs == analysis.processed_jobs
        IN  /\ analysis.total_jobs
                  = Cardinality({i \in DOMAIN job_posts : ~RaisesInBatch(job_posts[i])})
            /\ SumOfCounts(analysis.categories) = analysis.total_jobs
            /\ SumOfCounts(analysis.budgets) = analysis.total_jobs
            /\ analysis.competition.distribution["low"]
                  + analysis.competition.distribution["medium"]
                  + analysis.competition.distribution["high"] = analysis.total_jobs
            /\ \A key \in DOMAIN analysis.categories :
                  /\ \E i \in DOMAIN jobs :
                        key = jobs[i].category \o "." \o jobs[i].subcategory
                  /\ analysis.categories[key] = Cardinality({i \in DOMAIN jobs :
                        key = jobs[i].category \o "." \o jobs[i].subcategory})
            /\ \A tier \in DOMAIN analysis.budgets :
                  /\ analysis.budgets[tier] > 0
                  /\ analysis.budgets[tier]
                        = Cardinality({i \in DOMAIN jobs : jobs[i].budget = tier})

\* A report on three records of which the second raised and the other two
\* fall in the same category: that category is counted twice and nothing else.
C24_DroppedRecordNotCounted ==
    /\ analysis.returned
    /\ Len(job_posts) = 3
    /\ RaisesInBatch(job_posts[2])
    /\ analysis.total_jobs = 2
    /\ DOMAIN analysis.categories = {"web_development.frontend"}
    /\ analysis.categories["web_development.frontend"] = 2
    /\ SumOfCounts(analysis.budgets) = 2

\* C25: calculate_opportunity_score returns a score, without raising, for
\* every job: whatever its budget, its number of proposals (negative ones
\* included), its skills and the value of its client history.
C25_ScoreNeverRaises ==
    call.fn = "calculate_opportunity_score" =>
        (call.result.exc = "" /\ call.result.val \in 1..10)

\* What the contract says of a JobPost apart from the texts it copies.
Verdict(job) ==
    <<job.category, job.subcategory, job.budget, job.proposals, job.opportunity_score>>

\* C27: in every report the JobPost of a record carries the category,
\* subcategory, budget, proposals and score that processing the record alone
\* gives, whatever the other records of the batch are, wherever the record
\* stands and whatever failed before it; two places holding the same record
\* give the same five values; and of the records that share an id every one
\* that does not raise is kept.
C27_VerdictDependsOnRecordOnly ==
    analysis.returned =>
        LET jobs == analysis.processed_jobs
            kept == Survivors(Len(job_posts))
        IN  /\ Len(jobs) = Len(kept)
            /\ \A k \in DOMAIN kept :
                  \A alone \in process_outcomes[job_posts[kept[k]]] :
                      /\ alone.exc = ""
                      /\ Verdict(jobs[k]) = Verdict(alone.val)
                      /\ jobs[k].job_id = alone.val.job_id
            /\ \A k, l \in DOMAIN kept :
                  job_posts[kept[k]] = job_posts[kept[l]]
                      => Verdict(jobs[k]) = Verdict(jobs[l])

\* A report on three records, the first and third with the id "a" and
\* different contents, the second raising: both are kept, each with its own
\* budget tier.
C27_BothRecordsWithIdAKept ==
    /\ analysis.returned
    /\ Len(job_posts) = 3
    /\ RaisesInBatch(job_posts[2])
    /\ job_posts[1] # job_posts[3]
    /\ Len(analysis.processed_jobs) = 2
    /\ analysis.processed_jobs[1].job_id = PyStr("a")
    /\ analysis.processed_jobs[2].job_id = PyStr("a")
    /\ analysis.processed_jobs[1].budget = "micro"
    /\ analysis.processed_jobs[2].budget = "medium"

\* The keywords categorize_job counts a hit for in a title and description.
KeywordsHit(title, description) ==
    {keyword \in SeqToSet(all_keywords) :
        contains(keyword, lower(title \o " " \o description))}

\* C28: for every title and description the keywords categorize_job counts
\* as hits are exactly the skills extract_skills finds for the same two texts,
\* and the category scores add up to the number of those skills.
C28_HitsAreTheSkills ==
    call.fn = "categorize_job" =>
        LET skills == SeqToSet(found_skills(call.description, call.title))
        IN  /\ KeywordsHit(call.title, call.description) = skills
            /\ sum_of(call.category_scores) = Cardinality(skills)

\* C29: the sum a job's score is clamped from is never below 3, so every
\* score the scorer or process_job_post hands back lies in 3..10 and the
\* lower limit 1 never takes effect; a record with no fields scores 8 and
\* is listed as an opportunity.
C29_ScoreAtLeastThree ==
    /\ (call.fn = "calculate_opportunity_score" /\ call.result.exc = "") =>
            /\ unclamped_score(call.job) >= 3
            /\ call.result.val \in 3..10
    /\ (call.fn = "process_job_post" /\ call.result.exc = "") =>
            /\ call.result.val.opportunity_score \in 3..10
            /\ call.job_data = Record(<<>>) =>
                  /\ call.result.val.opportunity_score = 8
                  /\ Len(_find_opportunities(<<call.result.val>>)) = 1

\* The scorer called on a job whose sum is exactly 3: no budget bonus, more
\* than 50 proposals, no skills, no established client.
C29_LowestScoreIsThree ==
    /\ call.fn = "calculate_opportunity_score"
    /\ call.result.exc = ""
    /\ call.job.proposals > 50
    /\ unclamped_score(call.job) = 3
    /\ call.result.val = 3

\* C26: whatever has been called so far, on records that succeed and on
\* records that fail, the analyzer's skill_keywords and budget_ranges are the
\* tables its constructor built.
C26_TablesAsConstructed ==
    /\ analyzer.skill_keywords = skill_keywords
    /\ analyzer.budget_ranges = budget_ranges

\* A report is out on a batch in which one record was processed and one
\* was dropped.
C26_BatchWithFailureDone ==
    /\ analysis.returned
    /\ Len(processed_jobs) >= 1
    /\ Len(log) >= 1

StoryFields == {"story", "prompt", "genre", "length", "model", "word_count", "temperature"}

\* C21: every dict generate_story returns has the fields story, prompt,
\* genre, length, model, word_count and temperature, and its prompt, genre,
\* length and temperature are the arguments of the call, whether the
\* services answered or raised.
C21_AllFieldsOnEveryPath ==
    call.fn = "generate_story" =>
        /\ StoryFields \subseteq DOMAIN call.result
        /\ call.result.prompt = call.prompt
        /\ call.result.genre = call.genre
        /\ call.result.length = call.length
        /\ call.result.temperature = call.temperature

\* A call of an OpenAI-configured generator in which the OpenAI call and then
\* the pipeline raised: the dict carries the apology as its story, 14 words.
C21_BothBackendsRaised ==
    /\ call.fn = "generate_story"
    /\ call.this.use_openai
    /\ call.backend.OPENAI_AVAILABLE
    /\ call.backend.openai.exc # ""
    /\ call.backend.generator.exc # ""
    /\ StoryFields \subseteq DOMAIN call.result
    /\ call.result.word_count = 14
    /\ call.result.model = "OpenAI GPT"

\* C22: a call of the wrapper made with max_attempts = n invokes the
\* function at most n times and never again after an invocation that
\* returned; it ends with the value of the invocation that returned, or, when
\* all invocations raised, after exactly n of them with the exception of the
\* last one; the k-th sleep lasts delay * backoff^(k-1).
C22_RetryContract ==
    call.fn = "retry.wrapper" =>
        LET invocations == call.invocations
            n == Len(invocations)
        IN  /\ n <= call.max_attempts
            /\ \A k \in 1..(n - 1) : invocations[k].exc # ""
            /\ \A k \in DOMAIN call.sleeps :
                  call.sleeps[k] = call.delay * call.backoff ^ (k - 1)
            /\ call.at = "done" =>
                  IF \E k \in DOMAIN invocations : invocations[k].exc = ""
                  THEN call.result = invocations[n]
                  ELSE /\ n = call.max_attempts
                       /\ \E k \in DOMAIN invocations :
                             k = n /\ call.result = invocations[k]

\* float(n) for an int n small enough to be a float exactly
float_of_int(n) ==
    IF n = 0 THEN PyFloatZero
    ELSE round_to_float(IF n < 0 THEN 0 - 1 ELSE 1, bits_of(Abs(n)),
                        Len(bits_of(Abs(n))) - 1, FALSE)

\* The digits of bits * n, n > 0: each digit times n plus the carry, from the
\* last digit to the first.
RECURSIVE times_from(_, _, _, _, _)
times_from(bits, n, j, carry, digits) ==
    IF j = 0 THEN bits_of(carry) \o digits
    ELSE LET t == bits[j] * n + carry
         IN  times_from(bits, n, j - 1, t \div 2, <<t % 2>> \o digits)

\* x * n for a float x and an int n > 0: the float nearest to the product.
float_times_int(x, n) ==
    IF x.sign = 0 THEN PyFloatZero
    ELSE LET digits == times_from(x.bits, n, Precision, 0, <<>>)
         IN  round_to_float(x.sign, digits, x.exp + Len(digits) - Precision, FALSE)

RECURSIVE int_of_bits(_)
int_of_bits(bits) ==
    IF bits = <<>> THEN 0 ELSE 2 * int_of_bits(SubSeq(bits, 1, Len(bits) - 1)) + bits[Len(bits)]

\* The whole number nearest to a float of less than 31 binary digits before
\* the point (halves go away from zero).
NearestInteger(x) ==
    IF x.sign = 0 \/ x.exp < 0 - 1 THEN 0
    ELSE x.sign * (int_of_bits(SubSeq(x.bits, 1, x.exp + 1)) + x.bits[x.exp + 2])

\* The sum of the proposals of the jobs of the report.
TotalProposals ==
    sum_of([i \in DOMAIN analysis.processed_jobs |-> analysis.processed_jobs[i].proposals])

\* The report of a batch none of whose records was processed.
EmptyReport ==
    /\ analysis.total_jobs = 0
    /\ DOMAIN analysis.categories = {}
    /\ DOMAIN analysis.budgets = {}
    /\ analysis.top_skills = <<>>
    /\ analysis.opportunities = <<>>
    /\ analysis.processed_jobs = <<>>
    /\ \A level \in {"low", "medium", "high"} :
          analysis.competition.distribution[level] = 0
    /\ analysis.competition.average_proposals = PyIntZero

====
